---- MODULE Spec2Model ----
(***************************************************************************)
(* StudyAI backend (backend/server.py): subject detection, per-subject     *)
(* model and source lookup, system prompt construction, and the chat,      *)
(* session and message-listing handlers over the document store.           *)
(***************************************************************************)
EXTENDS Integers, Sequences, FiniteSets, Bags, TLC

----------------------------------------------------------------------------
(* Bounds of the exploration *)

MaxWords == 3        \* words typed into a message given to detect_subject
MaxReqs == 2         \* concurrent POST /chat calls
MaxTime == 1         \* ticks of the wall clock
MaxParts == 3        \* parts typed into the {subject} path parameter
MaxSources == 3      \* sources handed to create_educational_system_message

----------------------------------------------------------------------------
(* Static configuration tables *)

AI_MODELS ==
    ("photography" :> [provider |-> "anthropic", model |-> "claude-sonnet-4-20250514"])
    @@ ("film_directing" :> [provider |-> "gemini", model |-> "gemini-2.0-flash"])
    @@ ("media" :> [provider |-> "gemini", model |-> "gemini-2.0-flash"])
    @@ ("mathematics" :> [provider |-> "openai", model |-> "gpt-4o"])
    @@ ("default" :> [provider |-> "openai", model |-> "gpt-4o"])

UNIVERSITY_RESOURCES ==
    ("photography" :> <<
        [name |-> "Harvard University", url |-> "https://www.harvard.edu", department |-> "Visual and Environmental Studies"],
        [name |-> "Oxford University", url |-> "https://www.ox.ac.uk", department |-> "Ruskin School of Art"],
        [name |-> "Stanford University", url |-> "https://www.stanford.edu", department |-> "Art & Art History"],
        [name |-> "MIT", url |-> "https://www.mit.edu", department |-> "Architecture"],
        [name |-> "Yale University", url |-> "https://www.yale.edu", department |-> "School of Art"],
        [name |-> "ANU", url |-> "https://www.anu.edu.au", department |-> "School of Art & Design"],
        [name |-> "Cambridge University", url |-> "https://www.cam.ac.uk", department |-> "History of Art"],
        [name |-> "UCLA", url |-> "https://www.ucla.edu", department |-> "Arts and Architecture"],
        [name |-> "NYU", url |-> "https://www.nyu.edu", department |-> "Tisch School of the Arts"],
        [name |-> "Columbia University", url |-> "https://www.columbia.edu", department |-> "School of the Arts"],
        [name |-> "Princeton University", url |-> "https://www.princeton.edu", department |-> "Art and Archaeology"],
        [name |-> "University of Edinburgh", url |-> "https://www.ed.ac.uk", department |-> "Edinburgh College of Art"],
        [name |-> "Royal College of Art", url |-> "https://www.rca.ac.uk", department |-> "Photography"]
    >>)
    @@ ("film_directing" :> <<
        [name |-> "USC", url |-> "https://www.usc.edu", department |-> "School of Cinematic Arts"],
        [name |-> "NYU", url |-> "https://www.nyu.edu", department |-> "Tisch School of the Arts"],
        [name |-> "UCLA", url |-> "https://www.ucla.edu", department |-> "School of Theater, Film and Television"],
        [name |-> "AFI", url |-> "https://www.afi.com", department |-> "American Film Institute"],
        [name |-> "Columbia University", url |-> "https://www.columbia.edu", department |-> "School of the Arts"],
        [name |-> "Harvard University", url |-> "https://www.harvard.edu", department |-> "Visual and Environmental Studies"],
        [name |-> "Yale University", url |-> "https://www.yale.edu", department |-> "School of Drama"],
        [name |-> "Stanford University", url |-> "https://www.stanford.edu", department |-> "Film Studies"],
        [name |-> "ANU", url |-> "https://www.anu.edu.au", department |-> "School of Art & Design"],
        [name |-> "Cambridge University", url |-> "https://www.cam.ac.uk", department |-> "Film Studies"],
        [name |-> "Oxford University", url |-> "https://www.ox.ac.uk", department |-> "Film Studies"],
        [name |-> "Northwestern University", url |-> "https://www.northwestern.edu", department |-> "Radio/Television/Film"],
        [name |-> "University of Edinburgh", url |-> "https://www.ed.ac.uk", department |-> "Film Studies"]
    >>)
    @@ ("mathematics" :> <<
        [name |-> "MIT", url |-> "https://www.mit.edu", department |-> "Mathematics"],
        [name |-> "Harvard University", url |-> "https://www.harvard.edu", department |-> "Mathematics"],
        [name |-> "Stanford University", url |-> "https://www.stanford.edu", department |-> "Mathematics"],
        [name |-> "Princeton University", url |-> "https://www.princeton.edu", department |-> "Mathematics"],
        [name |-> "Cambridge University", url |-> "https://www.cam.ac.uk", department |-> "Mathematics"],
        [name |-> "Oxford University", url |-> "https://www.ox.ac.uk", department |-> "Mathematics"],
        [name |-> "Caltech", url |-> "https://www.caltech.edu", department |-> "Mathematics"],
        [name |-> "Yale University", url |-> "https://www.yale.edu", department |-> "Mathematics"],
        [name |-> "Columbia University", url |-> "https://www.columbia.edu", department |-> "Mathematics"],
        [name |-> "ANU", url |-> "https://www.anu.edu.au", department |-> "Mathematical Sciences Institute"],
        [name |-> "University of Chicago", url |-> "https://www.uchicago.edu", department |-> "Mathematics"],
        [name |-> "UC Berkeley", url |-> "https://www.berkeley.edu", department |-> "Mathematics"],
        [name |-> "Imperial College London", url |-> "https://www.imperial.ac.uk", department |-> "Mathematics"]
    >>)

photo_keywords ==
    <<"photo", "photography", "camera", "lens", "exposure", "aperture",
      "iso", "composition", "lighting", "portrait", "landscape">>

film_keywords ==
    <<"film", "cinema", "director", "directing", "movie", "screenplay",
      "cinematography", "editing", "production", "script">>

math_keywords ==
    <<"math", "mathematics", "algebra", "calculus", "geometry", "statistics",
      "equation", "formula", "theorem", "proof", "integral", "derivative">>

----------------------------------------------------------------------------
(* Strings *)

UpperToLower ==
    ("A" :> "a") @@ ("B" :> "b") @@ ("C" :> "c") @@ ("D" :> "d") @@
    ("E" :> "e") @@ ("F" :> "f") @@ ("G" :> "g") @@ ("H" :> "h") @@
    ("I" :> "i") @@ ("J" :> "j") @@ ("K" :> "k") @@ ("L" :> "l") @@
    ("M" :> "m") @@ ("N" :> "n") @@ ("O" :> "o") @@ ("P" :> "p") @@
    ("Q" :> "q") @@ ("R" :> "r") @@ ("S" :> "s") @@ ("T" :> "t") @@
    ("U" :> "u") @@ ("V" :> "v") @@ ("W" :> "w") @@ ("X" :> "x") @@
    ("Y" :> "y") @@ ("Z" :> "z")

RECURSIVE lower(_)
\* str.lower() on the characters of s
lower(s) ==
    IF Len(s) = 0 THEN ""
    ELSE LET c == SubSeq(s, 1, 1)
         IN  (IF c \in DOMAIN UpperToLower THEN UpperToLower[c] ELSE c)
                 \o lower(SubSeq(s, 2, Len(s)))

\* Python's `keyword in text` on strings: keyword occurs as a substring
StrIn(keyword, text) ==
    \E i \in 1..(Len(text) - Len(keyword) + 1) :
        SubSeq(text, i, i + Len(keyword) - 1) = keyword

\* sum(1 for keyword in keywords if keyword in message_lower)
keyword_score(keywords, message_lower) ==
    Cardinality({i \in DOMAIN keywords : StrIn(keywords[i], message_lower)})

----------------------------------------------------------------------------
(* Classifier *)

\* variant: photography also wins a tie with film (>= in the first test)
subject_of_scores_tie(photo_score, film_score, math_score) ==
    IF photo_score >= film_score /\ photo_score > math_score THEN "photography"
    ELSE IF film_score > math_score THEN "film_directing"
    ELSE IF math_score > 0 THEN "mathematics"
    ELSE "default"

\* variant: `or` instead of `and` in the first test
subject_of_scores_or(photo_score, film_score, math_score) ==
    IF photo_score > film_score \/ photo_score > math_score THEN "photography"
    ELSE IF film_score > math_score THEN "film_directing"
    ELSE IF math_score > 0 THEN "mathematics"
    ELSE "default"

\* the if/elif chain of detect_subject over the three scores
subject_of_scores(photo_score, film_score, math_score) ==
    IF photo_score > film_score /\ photo_score > math_score THEN "photography"
    ELSE IF film_score > math_score THEN "film_directing"
    ELSE IF math_score > 0 THEN "mathematics"
    ELSE "default"

photo_score_of(message) == keyword_score(photo_keywords, lower(message))
film_score_of(message) == keyword_score(film_keywords, lower(message))
math_score_of(message) == keyword_score(math_keywords, lower(message))

detect_subject(message) ==
    subject_of_scores(photo_score_of(message), film_score_of(message),
                      math_score_of(message))

----------------------------------------------------------------------------
(* ConfigResolver *)

\* variant: the default model whatever the subject
get_ai_model_for_subject_default(subject) == AI_MODELS["default"]

\* AI_MODELS.get(subject, AI_MODELS["default"])
get_ai_model_for_subject(subject) ==
    IF subject \in DOMAIN AI_MODELS THEN AI_MODELS[subject]
    ELSE AI_MODELS["default"]

\* variant: the slice [:5] left out
get_sources_for_subject_unsliced(subject) ==
    IF subject \in DOMAIN UNIVERSITY_RESOURCES
    THEN LET all == UNIVERSITY_RESOURCES[subject]
         IN  [i \in 1..Len(all) |-> [name |-> all[i].name, url |-> all[i].url,
                                     department |-> all[i].department]]
    ELSE <<>>

\* UNIVERSITY_RESOURCES[subject][:5], each entry copied field by field
get_sources_for_subject(subject) ==
    IF subject \in DOMAIN UNIVERSITY_RESOURCES
    THEN LET all == UNIVERSITY_RESOURCES[subject]
             n == IF Len(all) < 5 THEN Len(all) ELSE 5
         IN  [i \in 1..n |-> [name |-> all[i].name, url |-> all[i].url,
                              department |-> all[i].department]]
    ELSE <<>>

----------------------------------------------------------------------------
(* PromptBuilder *)

base_message ==
    "You are an educational assistant specializing in providing factual, unbiased information for Year 11 and Year 12 students. Your role is to:\n\n"
    \o "1. Provide accurate, educational content appropriate for senior high school level\n"
    \o "2. Always maintain objectivity and avoid bias\n"
    \o "3. Reference trusted university sources when possible\n"
    \o "4. Explain concepts clearly and progressively\n"
    \o "5. Encourage critical thinking and deeper understanding\n\n"

subject_message(subject) ==
    IF subject = "photography" THEN
        "You are particularly knowledgeable about:\n"
        \o "- Photography techniques and composition\n"
        \o "- Camera settings and equipment\n"
        \o "- History of photography\n"
        \o "- Visual storytelling and artistic expression\n"
        \o "- Technical aspects of image creation"
    ELSE IF subject = "film_directing" THEN
        "You are particularly knowledgeable about:\n"
        \o "- Film directing techniques and theory\n"
        \o "- Cinematography and visual storytelling\n"
        \o "- Film history and analysis\n"
        \o "- Production processes and workflows\n"
        \o "- Media studies and criticism"
    ELSE IF subject = "mathematics" THEN
        "You are particularly knowledgeable about:\n"
        \o "- Mathematical concepts and problem-solving\n"
        \o "- Algebra, calculus, and geometry\n"
        \o "- Statistical analysis and data interpretation\n"
        \o "- Mathematical proofs and reasoning\n"
        \o "- Real-world applications of mathematics"
    ELSE "You provide comprehensive educational support across multiple subjects."

RECURSIVE source_lines_reversed(_)
\* variant: each bullet line is put before the lines already rendered
source_lines_reversed(sources) ==
    IF sources = <<>> THEN ""
    ELSE source_lines_reversed(Tail(sources))
             \o "- " \o Head(sources).name \o " (" \o Head(sources).department
             \o "): " \o Head(sources).url \o "\n"

RECURSIVE source_lines(_)
\* the loop appending one bullet line per source
source_lines(sources) ==
    IF sources = <<>> THEN ""
    ELSE "- " \o Head(sources).name \o " (" \o Head(sources).department
             \o "): " \o Head(sources).url \o "\n"
             \o source_lines(Tail(sources))

sources_message(sources) ==
    "\n\nRefer to these trusted university sources when relevant:\n"
    \o source_lines(sources)

citation_reminder ==
    "\n\nAlways cite sources when referencing specific information from universities."

create_educational_system_message(subject, sources) ==
    base_message \o subject_message(subject) \o sources_message(sources)
        \o citation_reminder

----------------------------------------------------------------------------
(* Values of the request handlers *)

\* Optional[str]: <<>> is None, <<s>> is the string s
None == <<>>
Some(s) == <<s>>

\* Python truthiness of an Optional[str]: None and "" are falsy
Truthy(opt) == opt # None /\ opt[1] # ""

\* request.subject or detect_subject(request.message)
resolve_subject(subject_in, message) ==
    IF Truthy(subject_in) THEN subject_in[1] ELSE detect_subject(message)

\* f"{model_config['provider']}/{model_config['model']}"
model_used(model_config) ==
    model_config.provider \o "/" \o model_config.model

\* str(uuid.uuid4()): an identifier not generated before, named after its
\* kind ("msg" for an exchange, "session" for a session) and rank
uuid4(kind, n) == kind \o "-" \o ToString(n)

\* ChatMessage(...) as built by chat_with_ai, id and timestamp by default
ChatMessage(id, session_id, user_message, ai_response, subject, ai_model_used, sources, timestamp) ==
    [id |-> id, session_id |-> session_id, user_message |-> user_message,
     ai_response |-> ai_response, subject |-> subject,
     ai_model_used |-> ai_model_used, sources |-> sources,
     timestamp |-> timestamp]

\* ChatSession(): every field by default; created_at and last_active are
\* two reads of the clock, the second not before the first
ChatSession(id, created_at, last_active) ==
    [id |-> id, created_at |-> created_at, last_active |-> last_active,
     total_messages |-> 0]

\* HTTPException(status_code=500, detail=f"Chat processing failed: {str(e)}")
chat_failed(cause) ==
    [status |-> 500, detail |-> "Chat processing failed: " \o cause]

\* str(e) of HTTPException(500, "API key not configured"): the status and
\* detail where the framework defines __str__, the empty string otherwise
KeyErrorTexts == {"500: API key not configured", ""}

ProviderErrorTexts == {"provider error"}
StorageErrorTexts == {"storage error"}
ResponseTexts == {"answer"}

----------------------------------------------------------------------------
(* Document store operations; a collection is the set of its documents *)

ListLimit == 1000    \* to_list(1000)

\* the session documents matching {"id": session_id}
MatchingSessions(sessions, session_id) ==
    {d \in sessions : d.id = session_id}

\* the _id the store gives to the n-th document of a collection
ObjectId(n) == "oid-" \o ToString(n)

\* insert_one(document) on chat_sessions: the document is stored under a
\* fresh _id
insert_session(sessions, document) ==
    sessions \cup
        {[field \in DOMAIN document \cup {"_id"} |->
            IF field = "_id" THEN ObjectId(Cardinality(sessions) + 1)
            ELSE document[field]]}

\* variant: total_messages written with "$set" of 1 instead of "$inc"
update_matched_set(sessions, d, last_active) ==
    (sessions \ {d}) \cup
        {[d EXCEPT !.last_active = last_active, !.total_messages = 1]}

\* update_one on a document d matching {"id": session_id}:
\* {"$set": {"last_active": last_active}, "$inc": {"total_messages": 1}},
\* applied to d atomically
update_matched(sessions, d, last_active) ==
    (sessions \ {d}) \cup
        {[d EXCEPT !.last_active = last_active,
                   !.total_messages = @ + 1]}

\* the document update_one(..., upsert=True) inserts when its query matched
\* none: the fields of the filter and of the update
upserted_session(session_id, last_active) ==
    [id |-> session_id, last_active |-> last_active, total_messages |-> 1]

\* variant: find({}) without the session filter
find_by_session_unfiltered(messages, session_id) == messages

\* the documents matching find({"session_id": session_id})
find_by_session(messages, session_id) ==
    {m \in messages : m.session_id = session_id}

\* .sort("timestamp", 1): the orders of the found documents that are
\* ascending by timestamp; documents with equal timestamps come in any order
sorted_by_timestamp(found) ==
    {order \in [1..Cardinality(found) -> found] :
        /\ \A j, k \in DOMAIN order : j # k => order[j] # order[k]
        /\ \A j, k \in DOMAIN order :
              j < k => order[j].timestamp <= order[k].timestamp}

\* .to_list(length): at most the first `length` documents of the cursor
to_list(order, length) ==
    SubSeq(order, 1, IF Len(order) < length THEN Len(order) ELSE length)

----------------------------------------------------------------------------
(* State *)

Vocabulary ==
    {"photography", "Camera", "cinematography", "film", "mathematics",
     "proof", "hello"}

\* request bodies of POST /chat
ChatTexts ==
    {"Explain derivatives", "Portrait lens tips", "cinema camera", "Hello there"}
SubjectInputs ==
    {None, Some(""), Some("photography"), Some("media"), Some("astrology")}
ClientSessionIds == {"s1"}
\* the identifiers uuid4 hands to POST /sessions
SessionUuids == {uuid4("session", 1)}
ApiKeys == {None, Some(""), Some("sk-test")}

\* the request body sent by the concurrent calls
ConcurrentTexts == {"Explain derivatives"}
ConcurrentSubjects == {None}

VARIABLES
    typed,          \* message text being assembled for detect_subject
    typed_words,    \* number of words in typed
    scores,         \* <<photo_score, film_score, math_score>> of the last call
    detected,       \* result of the last detect_subject call, "" before it
    path,           \* {subject} path parameter being assembled for
                    \* GET /resources/{subject}
    path_parts,     \* number of parts in path
    prompt_sources, \* sources being collected for the prompt builder
    prompt,         \* <<subject, result>> of the last call of
                    \* create_educational_system_message, None before it
    api_key,        \* os.environ.get('EMERGENT_LLM_KEY')
    now,            \* datetime.utcnow()
    chat_messages,  \* db.chat_messages
    chat_sessions,  \* db.chat_sessions
    session_call,   \* the POST /sessions call awaiting insert_one: Some of
                    \* the ChatSession it built, None when there is none
    messages_call,  \* the GET .../messages call awaiting its query: Some of
                    \* the session id and the documents the store answered,
                    \* None when there is none
    upserts,        \* the update_one operations the store has taken up and
                    \* whose result no handler has received: the id of the
                    \* exchange of the call and the phase, "insert" after a
                    \* query that matched no document, "applied" afterwards;
                    \* an applied one stays when its call fails
    calls,          \* the POST /chat calls made so far, a bag with one record
                    \* per call: position, locals (request fields and derived
                    \* configuration kept; chat_message kept by a call that
                    \* failed after building it, dropped at return),
                    \* collaborator calls made, response
    out             \* response of POST /sessions, GET .../messages or
                    \* GET /resources/... sent by the latest step, None when
                    \* that step sent none of them

detect_vars == <<typed, typed_words, scores, detected>>
resources_vars == <<path, path_parts>>
prompt_vars == <<prompt_sources, prompt>>
probe_vars == <<detect_vars, resources_vars, prompt_vars>>
pending_vars == <<session_call, messages_call>>
store_vars == <<api_key, now, chat_messages, chat_sessions, upserts, calls,
                pending_vars>>
vars == <<typed, typed_words, scores, detected, path, path_parts,
          prompt_sources, prompt, api_key, now, chat_messages,
          chat_sessions, upserts, session_call, messages_call, calls, out>>

InitProbe ==
    /\ typed = ""
    /\ typed_words = 0
    /\ scores = <<0, 0, 0>>
    /\ detected = ""
    /\ path = ""
    /\ path_parts = 0
    /\ prompt_sources = <<>>
    /\ prompt = None

InitSystem ==
    /\ now = 0
    /\ chat_messages = {}
    /\ chat_sessions = {}
    /\ upserts = {}
    /\ session_call = None
    /\ messages_call = None
    /\ calls = EmptyBag
    /\ out = None

----------------------------------------------------------------------------
(* The classifier on typed messages *)

InitDetect ==
    /\ InitProbe
    /\ InitSystem
    /\ api_key = Some("sk-test")

TypeWord(w) ==
    /\ detected = ""
    /\ typed_words < MaxWords
    /\ typed' = (IF typed = "" THEN w ELSE typed \o " " \o w)
    /\ typed_words' = typed_words + 1
    /\ UNCHANGED <<scores, detected>>
    /\ UNCHANGED <<resources_vars, prompt_vars, store_vars, out>>

Detect ==
    /\ detected = ""
    /\ scores' = <<photo_score_of(typed), film_score_of(typed),
                   math_score_of(typed)>>
    /\ detected' = detect_subject(typed)
    /\ UNCHANGED <<typed, typed_words>>
    /\ UNCHANGED <<resources_vars, prompt_vars, store_vars, out>>

NextDetect ==
    \/ \E w \in Vocabulary : TypeWord(w)
    \/ Detect

SpecDetect == InitDetect /\ [][NextDetect]_vars

----------------------------------------------------------------------------
(* GET /resources/{subject} on typed path parameters *)

\* parts a client types into the path parameter
PathParts ==
    {"photography", "Photo", "GRAPHY", "film_directing", "mathematics",
     "default", "media"}

\* UniversityResource(name=..., url=..., department=..., subject=...)
UniversityResource(name, url, department, subject) ==
    [name |-> name, url |-> url, department |-> department,
     subject |-> subject]

\* `subject.lower() not in UNIVERSITY_RESOURCES`
subject_not_found(subject) ==
    lower(subject) \notin DOMAIN UNIVERSITY_RESOURCES

\* the list comprehension over UNIVERSITY_RESOURCES[subject.lower()]
subject_resources(subject) ==
    LET resources == UNIVERSITY_RESOURCES[lower(subject)]
    IN  [i \in 1..Len(resources) |->
            UniversityResource(resources[i].name, resources[i].url,
                               resources[i].department, subject)]

\* the response of get_subject_resources(subject)
get_subject_resources(subject) ==
    IF subject_not_found(subject)
    THEN [status |-> 404, subject |-> subject, detail |-> "Subject not found"]
    ELSE [status |-> 200, subject |-> subject,
          resources |-> subject_resources(subject)]

InitResources ==
    /\ InitProbe
    /\ InitSystem
    /\ api_key = Some("sk-test")

TypePath(part) ==
    /\ out = None
    /\ path_parts < MaxParts
    /\ path' = path \o part
    /\ path_parts' = path_parts + 1
    /\ UNCHANGED <<detect_vars, prompt_vars, store_vars, out>>

\* GET /resources/{path}
GetSubjectResources ==
    /\ out = None
    /\ path # ""
    /\ out' = Some(get_subject_resources(path))
    /\ UNCHANGED <<detect_vars, resources_vars, prompt_vars, store_vars>>

NextResources ==
    \/ \E part \in PathParts : TypePath(part)
    \/ GetSubjectResources

SpecResources == InitResources /\ [][NextResources]_vars

----------------------------------------------------------------------------
(* The prompt builder on collected sources *)

\* subjects handed to the prompt builder
PromptSubjects ==
    {"photography", "film_directing", "mathematics", "default", "media"}

\* sources handed to the prompt builder: the first of each subject's list
SourcePool ==
    {get_sources_for_subject(subject)[1] :
        subject \in DOMAIN UNIVERSITY_RESOURCES}

InitPrompt ==
    /\ InitProbe
    /\ InitSystem
    /\ api_key = Some("sk-test")

AddSource(source) ==
    /\ prompt = None
    /\ Len(prompt_sources) < MaxSources
    /\ prompt_sources' = Append(prompt_sources, source)
    /\ UNCHANGED <<detect_vars, resources_vars, prompt, store_vars, out>>

\* create_educational_system_message(subject, prompt_sources)
BuildPrompt(subject) ==
    /\ prompt = None
    /\ prompt' = Some([subject |-> subject,
                       system_message |->
                           create_educational_system_message(
                               subject, prompt_sources)])
    /\ UNCHANGED <<detect_vars, resources_vars, prompt_sources, store_vars,
                   out>>

NextPrompt ==
    \/ \E source \in SourcePool : AddSource(source)
    \/ \E subject \in PromptSubjects : BuildPrompt(subject)

SpecPrompt == InitPrompt /\ [][NextPrompt]_vars

----------------------------------------------------------------------------
(* The request handlers *)

Init ==
    /\ InitProbe
    /\ InitSystem
    /\ api_key \in ApiKeys

\* the session documents inserted by POST /sessions
CreatedSessions == {d \in chat_sessions : "created_at" \in DOMAIN d}

\* session ids a client sends: its own, or that of a stored session whose
\* POST /sessions has ended
KnownSessionIds ==
    ClientSessionIds \cup
        {d.id : d \in {e \in CreatedSessions :
                          session_call = None \/ e.id # session_call[1].id}}

\* the record of call c replaced by d
Moved(c, d) == (calls (-) SetToBag({c})) (+) SetToBag({d})

\* number of ChatMessage objects built so far
MessagesBuilt ==
    BagCardinality([c \in {d \in BagToSet(calls) : d.made # <<>> /\ d.made[1] = "send:ok"}
                        |-> CopiesIn(c, calls)])

\* variant: `if api_key is None`, an empty credential passes
api_key_missing_none_only(key) == key = None

\* `if not api_key`
api_key_missing(key) == ~Truthy(key)

\* chat_with_ai up to its first await: subject, model, sources (and the
\* prompt built from them, an argument of the provider call), the credential
\* check, and the call of chat.send_message
ChatStart(message, session_id, subject_in) ==
    /\ BagCardinality(calls) < MaxReqs
    /\ LET subject == resolve_subject(subject_in, message)
           model_config == get_ai_model_for_subject(subject)
           sources == get_sources_for_subject(subject)
           locals == [pc |-> "send", message |-> message,
                      session_id |-> session_id, subject_in |-> subject_in,
                      subject |-> subject, model_config |-> model_config,
                      sources |-> sources, chat_message |-> None,
                      last_active |-> 0, made |-> <<>>, response |-> None]
       IN  IF api_key_missing(api_key)
           THEN \E text \in KeyErrorTexts :
                    calls' = calls (+) SetToBag({
                        [locals EXCEPT !.pc = "done",
                                       !.response = Some(chat_failed(text))]})
           ELSE calls' = calls (+) SetToBag({locals})
    /\ out' = None
    /\ UNCHANGED <<api_key, now, chat_messages, chat_sessions, upserts>>
    /\ UNCHANGED <<probe_vars, pending_vars>>

\* chat.send_message returns: the ChatMessage is built and insert_one called
ProviderOk(c, ai_response) ==
    /\ c.pc = "send"
    /\ calls' = Moved(c,
          [c EXCEPT !.pc = "insert",
                    !.made = Append(@, "send:ok"),
                    !.chat_message = Some(ChatMessage(
                        uuid4("msg", MessagesBuilt + 1), c.session_id,
                        c.message, ai_response, c.subject,
                        model_used(c.model_config), c.sources, now))])
    /\ out' = None
    /\ UNCHANGED <<api_key, now, chat_messages, chat_sessions, upserts>>
    /\ UNCHANGED <<probe_vars, pending_vars>>

\* variant: a failed send is sent again
ProviderFail_retry(c, cause) ==
    /\ c.pc = "send"
    /\ calls' = Moved(c, [c EXCEPT !.made = Append(@, "send:fail")])
    /\ out' = None
    /\ UNCHANGED <<api_key, now, chat_messages, chat_sessions, upserts>>
    /\ UNCHANGED <<probe_vars, pending_vars>>

\* chat.send_message raises
ProviderFail(c, cause) ==
    /\ c.pc = "send"
    /\ calls' = Moved(c,
          [c EXCEPT !.pc = "done",
                    !.made = Append(@, "send:fail"),
                    !.response = Some(chat_failed(cause))])
    /\ out' = None
    /\ UNCHANGED <<api_key, now, chat_messages, chat_sessions, upserts>>
    /\ UNCHANGED <<probe_vars, pending_vars>>

\* the exchange of a call is in the store
Inserted(c) == c.chat_message # None /\ c.chat_message[1] \in chat_messages

\* the update_one operation of a call that the store has in hand
upsert_of(c) ==
    IF c.chat_message = None THEN {}
    ELSE {u \in upserts : u.id = c.chat_message[1].id}

\* variant: the insert replaces the exchanges already stored for the session
StoreInsert_replace(c) ==
    /\ c.pc = "insert"
    /\ ~Inserted(c)
    /\ chat_messages' =
          {m \in chat_messages : m.session_id # c.session_id}
              \cup {c.chat_message[1]}
    /\ out' = None
    /\ UNCHANGED <<api_key, now, chat_sessions, upserts, calls>>
    /\ UNCHANGED <<probe_vars, pending_vars>>

\* the store applies insert_one(chat_message.dict()); the handler still
\* awaits it
StoreInsert(c) ==
    /\ c.pc = "insert"
    /\ ~Inserted(c)
    /\ chat_messages' = chat_messages \cup {c.chat_message[1]}
    /\ out' = None
    /\ UNCHANGED <<api_key, now, chat_sessions, upserts, calls>>
    /\ UNCHANGED <<probe_vars, pending_vars>>

\* the handler resumes from insert_one: update_one is called with utcnow()
InsertOk(c) ==
    /\ c.pc = "insert"
    /\ Inserted(c)
    /\ calls' = Moved(c,
          [c EXCEPT !.pc = "update",
                    !.made = Append(@, "insert:ok"),
                    !.last_active = now])
    /\ out' = None
    /\ UNCHANGED <<api_key, now, chat_messages, chat_sessions, upserts>>
    /\ UNCHANGED <<probe_vars, pending_vars>>

\* insert_one raises, before the store has applied the insert or after it:
\* the except clause answers 500 either way, and an insert the store has
\* applied stays applied
InsertFail(c, cause) ==
    /\ c.pc = "insert"
    /\ calls' = Moved(c,
          [c EXCEPT !.pc = "done",
                    !.made = Append(@, "insert:fail"),
                    !.response = Some(chat_failed(cause))])
    /\ out' = None
    /\ UNCHANGED <<api_key, now, chat_messages, chat_sessions, upserts>>
    /\ UNCHANGED <<probe_vars, pending_vars>>

\* the store applies update_one to a document d that matches the filter; the
\* handler still awaits it
StoreUpdate(c, d) ==
    /\ c.pc = "update"
    /\ upsert_of(c) = {}
    /\ d \in MatchingSessions(chat_sessions, c.session_id)
    /\ chat_sessions' = update_matched(chat_sessions, d, c.last_active)
    /\ upserts' = upserts \cup
          {[id |-> c.chat_message[1].id, phase |-> "applied"]}
    /\ out' = None
    /\ UNCHANGED <<api_key, now, chat_messages, calls>>
    /\ UNCHANGED <<probe_vars, pending_vars>>

\* the query of update_one(..., upsert=True) matches no document: the store
\* goes on to insert one
StoreUpsertQuery(c) ==
    /\ c.pc = "update"
    /\ upsert_of(c) = {}
    /\ MatchingSessions(chat_sessions, c.session_id) = {}
    /\ upserts' = upserts \cup
          {[id |-> c.chat_message[1].id, phase |-> "insert"]}
    /\ out' = None
    /\ UNCHANGED <<api_key, now, chat_messages, chat_sessions, calls>>
    /\ UNCHANGED <<probe_vars, pending_vars>>

\* the store inserts the document of an upsert whose query matched none; no
\* unique index on "id" is declared, so a document inserted for the same id
\* since the query does not stop it
StoreUpsertInsert(c) ==
    /\ c.pc = "update"
    /\ upsert_of(c) = {[id |-> c.chat_message[1].id, phase |-> "insert"]}
    /\ chat_sessions' = insert_session(chat_sessions,
                            upserted_session(c.session_id, c.last_active))
    /\ upserts' = (upserts \ upsert_of(c)) \cup
          {[id |-> c.chat_message[1].id, phase |-> "applied"]}
    /\ out' = None
    /\ UNCHANGED <<api_key, now, chat_messages, calls>>
    /\ UNCHANGED <<probe_vars, pending_vars>>

\* a store whose insert-or-update is atomic: the query that matches no
\* document and the insert are one step
StoreUpsertAtomic(c) ==
    /\ c.pc = "update"
    /\ upsert_of(c) = {}
    /\ MatchingSessions(chat_sessions, c.session_id) = {}
    /\ chat_sessions' = insert_session(chat_sessions,
                            upserted_session(c.session_id, c.last_active))
    /\ upserts' = upserts \cup
          {[id |-> c.chat_message[1].id, phase |-> "applied"]}
    /\ out' = None
    /\ UNCHANGED <<api_key, now, chat_messages, calls>>
    /\ UNCHANGED <<probe_vars, pending_vars>>

\* the handler resumes from update_one and returns chat_message
UpdateOk(c) ==
    /\ c.pc = "update"
    /\ upsert_of(c) = {[id |-> c.chat_message[1].id, phase |-> "applied"]}
    /\ upserts' = upserts \ upsert_of(c)
    /\ calls' = Moved(c,
          [c EXCEPT !.pc = "done",
                    !.made = Append(@, "update:ok"),
                    !.chat_message = None,
                    !.last_active = 0,
                    !.response = Some([status |-> 200,
                                       body |-> c.chat_message[1]])])
    /\ out' = None
    /\ UNCHANGED <<api_key, now, chat_messages, chat_sessions>>
    /\ UNCHANGED <<probe_vars, pending_vars>>

\* variant: the failure of update_one is swallowed and the exchange returned
UpdateFail_swallowed(c, cause) ==
    /\ c.pc = "update"
    /\ upserts' = upserts \ {u \in upsert_of(c) : u.phase = "insert"}
    /\ calls' = Moved(c,
          [c EXCEPT !.pc = "done",
                    !.made = Append(@, "update:fail"),
                    !.last_active = 0,
                    !.response = Some([status |-> 200,
                                       body |-> c.chat_message[1]])])
    /\ out' = None
    /\ UNCHANGED <<api_key, now, chat_messages, chat_sessions>>
    /\ UNCHANGED <<probe_vars, pending_vars>>

\* update_one raises, before the store has taken the operation up, after
\* its query matched no document, or after the update or the insert was
\* applied: the except clause answers 500 either way; what the store has
\* applied stays applied, and an upsert left after its query inserts nothing
UpdateFail(c, cause) ==
    /\ c.pc = "update"
    /\ upserts' = upserts \ {u \in upsert_of(c) : u.phase = "insert"}
    /\ calls' = Moved(c,
          [c EXCEPT !.pc = "done",
                    !.made = Append(@, "update:fail"),
                    !.last_active = 0,
                    !.response = Some(chat_failed(cause))])
    /\ out' = None
    /\ UNCHANGED <<api_key, now, chat_messages, chat_sessions>>
    /\ UNCHANGED <<probe_vars, pending_vars>>

\* the response of a handler that lets a storage exception escape
InternalServerError == [status |-> 500]

\* the session built by the pending POST /sessions is in the store
SessionStored ==
    /\ session_call # None
    /\ \E d \in chat_sessions : d.id = session_call[1].id

\* POST /sessions up to its await: ChatSession() takes a fresh id and reads
\* the clock for created_at and again for last_active, and insert_one is
\* called
CreateSession ==
    /\ session_call = None
    /\ \E id \in SessionUuids \ {d.id : d \in chat_sessions} :
          \E last_active \in now..MaxTime :
              /\ session_call' = Some(ChatSession(id, now, last_active))
              /\ now' = last_active
    /\ out' = None
    /\ UNCHANGED <<api_key, chat_messages, chat_sessions, upserts,
                   messages_call, calls>>
    /\ UNCHANGED probe_vars

\* the store applies insert_one(session.dict()); the handler still awaits it
StoreSessionInsert ==
    /\ session_call # None
    /\ ~SessionStored
    /\ chat_sessions' = insert_session(chat_sessions, session_call[1])
    /\ out' = None
    /\ UNCHANGED <<api_key, now, chat_messages, upserts, session_call,
                   messages_call, calls>>
    /\ UNCHANGED probe_vars

\* the handler resumes from insert_one and returns the session
CreateSessionReturn ==
    /\ SessionStored
    /\ out' = Some([status |-> 200, body |-> session_call[1]])
    /\ session_call' = None
    /\ UNCHANGED <<api_key, now, chat_messages, chat_sessions, upserts,
                   messages_call, calls>>
    /\ UNCHANGED probe_vars

\* insert_one of POST /sessions raises, before the store has applied the
\* insert or after it: the exception escapes the handler either way, and a
\* session the store has inserted stays stored
CreateSessionFail ==
    /\ session_call # None
    /\ out' = Some(InternalServerError)
    /\ session_call' = None
    /\ UNCHANGED <<api_key, now, chat_messages, chat_sessions, upserts,
                   messages_call, calls>>
    /\ UNCHANGED probe_vars

\* GET /sessions/{session_id}/messages up to the answer of the store: the
\* query is issued and the store answers it from the documents it holds
GetSessionMessages(session_id) ==
    /\ messages_call = None
    /\ \E order \in sorted_by_timestamp(
                        find_by_session(chat_messages, session_id)) :
          messages_call' = Some([session_id |-> session_id,
                                 messages |-> to_list(order, ListLimit)])
    /\ out' = None
    /\ UNCHANGED <<api_key, now, chat_messages, chat_sessions, upserts,
                   session_call, calls>>
    /\ UNCHANGED probe_vars

\* the answer of the store reaches the handler, which returns it
GetSessionMessagesReturn ==
    /\ messages_call # None
    /\ out' = Some([status |-> 200,
                    session_id |-> messages_call[1].session_id,
                    messages |-> messages_call[1].messages])
    /\ messages_call' = None
    /\ UNCHANGED <<api_key, now, chat_messages, chat_sessions, upserts,
                   session_call, calls>>
    /\ UNCHANGED probe_vars

\* the query of GET /sessions/{session_id}/messages raises
GetSessionMessagesFail ==
    /\ messages_call # None
    /\ out' = Some(InternalServerError)
    /\ messages_call' = None
    /\ UNCHANGED <<api_key, now, chat_messages, chat_sessions, upserts,
                   session_call, calls>>
    /\ UNCHANGED probe_vars

\* the wall clock advances
Tick ==
    /\ now < MaxTime
    /\ now' = now + 1
    /\ out' = None
    /\ UNCHANGED <<api_key, chat_messages, chat_sessions, upserts, calls>>
    /\ UNCHANGED <<probe_vars, pending_vars>>

\* the steps of the handler of a call after its start
ChatStep(c) ==
    \/ \E ai_response \in ResponseTexts : ProviderOk(c, ai_response)
    \/ \E cause \in ProviderErrorTexts : ProviderFail(c, cause)
    \/ InsertOk(c)
    \/ \E cause \in StorageErrorTexts : InsertFail(c, cause)
    \/ UpdateOk(c)
    \/ \E cause \in StorageErrorTexts : UpdateFail(c, cause)

\* the steps of the store on the operations of a call
StoreStep(c) ==
    \/ StoreInsert(c)
    \/ \E d \in chat_sessions : StoreUpdate(c, d)
    \/ StoreUpsertQuery(c)
    \/ StoreUpsertInsert(c)

\* the steps of a store whose insert-or-update is atomic
AtomicStoreStep(c) ==
    \/ StoreInsert(c)
    \/ \E d \in chat_sessions : StoreUpdate(c, d)
    \/ StoreUpsertAtomic(c)

\* the steps of POST /sessions
SessionStep ==
    \/ CreateSession
    \/ StoreSessionInsert
    \/ CreateSessionReturn
    \/ CreateSessionFail

\* the steps of GET /sessions/{session_id}/messages
MessagesStep ==
    \/ \E session_id \in KnownSessionIds : GetSessionMessages(session_id)
    \/ GetSessionMessagesReturn
    \/ GetSessionMessagesFail

OtherStep ==
    \/ SessionStep
    \/ MessagesStep
    \/ Tick

\* concurrent calls with one request body
Next ==
    \/ \E message \in ConcurrentTexts, session_id \in KnownSessionIds,
          subject_in \in ConcurrentSubjects :
          ChatStart(message, session_id, subject_in)
    \/ \E c \in BagToSet(calls) : ChatStep(c)
    \/ \E c \in BagToSet(calls) : StoreStep(c)
    \/ OtherStep

Spec == Init /\ [][Next]_vars

\* one call with every request body
NextChat ==
    \/ \E message \in ChatTexts, session_id \in KnownSessionIds,
          subject_in \in SubjectInputs :
          calls = EmptyBag /\ ChatStart(message, session_id, subject_in)
    \/ \E c \in BagToSet(calls) : ChatStep(c)
    \/ \E c \in BagToSet(calls) : StoreStep(c)
    \/ OtherStep

SpecChat == Init /\ [][NextChat]_vars

\* the writers of the store: concurrent calls with one request body and
\* POST /sessions, without the reads of GET /sessions/{session_id}/messages
NextStore ==
    \/ \E message \in ConcurrentTexts, session_id \in KnownSessionIds,
          subject_in \in ConcurrentSubjects :
          ChatStart(message, session_id, subject_in)
    \/ \E c \in BagToSet(calls) : ChatStep(c)
    \/ \E c \in BagToSet(calls) : StoreStep(c)
    \/ SessionStep
    \/ Tick

SpecStore == Init /\ [][NextStore]_vars

\* the writers of the store over a store whose insert-or-update is atomic
NextAtomic ==
    \/ \E message \in ConcurrentTexts, session_id \in KnownSessionIds,
          subject_in \in ConcurrentSubjects :
          ChatStart(message, session_id, subject_in)
    \/ \E c \in BagToSet(calls) : ChatStep(c)
    \/ \E c \in BagToSet(calls) : AtomicStoreStep(c)
    \/ SessionStep
    \/ Tick

SpecAtomic == Init /\ [][NextAtomic]_vars

----------------------------------------------------------------------------
(* Properties *)

AllCalls == BagToSet(calls)
Returned(c) == c.response # None /\ c.response[1].status = 200
Failed(c) == c.response # None /\ c.response[1].status # 200
AllSucceeded == <<"send:ok", "insert:ok", "update:ok">>
FailurePrefix == "Chat processing failed: "
StartsWith(text, prefix) ==
    Len(text) >= Len(prefix) /\ SubSeq(text, 1, Len(prefix)) = prefix

\* C1: detect_subject returns the result of the fixed priority rule over the
\* three keyword scores: photography when the photography score is strictly
\* greater than both others, otherwise film_directing when the film score is
\* greater than the mathematics score, otherwise mathematics when that score
\* is positive, otherwise default; so scores (2,2,0) give film_directing and
\* a message without keywords gives default.
C1_DetectPriority ==
    detected # "" =>
        LET p == scores[1]
            f == scores[2]
            m == scores[3]
            first == p > f /\ p > m
        IN  /\ first => detected = "photography"
            /\ (~first /\ f > m) => detected = "film_directing"
            /\ (~first /\ ~(f > m) /\ m > 0) => detected = "mathematics"
            /\ (~first /\ ~(f > m) /\ ~(m > 0)) => detected = "default"
            /\ scores = <<2, 2, 0>> => detected = "film_directing"
            /\ scores = <<0, 0, 0>> => detected = "default"

C1_Witness == detected = "film_directing" /\ scores = <<2, 2, 0>>

\* C2: every stored or returned exchange has a subject that is a key of both
\* the model table and the source table.
C2_SubjectInBothTables ==
    \A e \in chat_messages \cup {c.response[1].body : c \in {d \in AllCalls : Returned(d)}} :
        /\ e.subject \in DOMAIN AI_MODELS
        /\ e.subject \in DOMAIN UNIVERSITY_RESOURCES

\* C3: a POST /chat call returns an exchange only if the provider call, the
\* insert and the session upsert have succeeded, in that order; a call in
\* which one of them failed answers the processing-failed error (status 500)
\* and carries no exchange.
C3_ExchangeOnlyAfterAllSucceeded ==
    \A c \in AllCalls :
        /\ (c.response # None) <=> (c.pc = "done")
        /\ Returned(c) => c.made = AllSucceeded
        /\ (c.pc = "done" /\ c.made # AllSucceeded) =>
              /\ c.response[1].status = 500
              /\ DOMAIN c.response[1] = {"status", "detail"}
              /\ StartsWith(c.response[1].detail, FailurePrefix)

C3_Witness ==
    /\ \E c \in AllCalls : Returned(c) /\ c.made = AllSucceeded
    /\ \E c \in AllCalls :
          Failed(c) /\ c.made = <<"send:ok", "insert:ok", "update:fail">>

C4_ProviderFailureNoRetry ==
    \A c \in AllCalls :
        (\E i \in DOMAIN c.made : c.made[i] = "send:fail") =>
            /\ c.made = <<"send:fail">>
            /\ c.pc = "done"
            /\ Failed(c)

C4_ProviderFailureStep ==
    (\E c \in BagToSet(calls') :
        /\ CopiesIn(c, calls') > CopiesIn(c, calls)
        /\ c.made # <<>>
        /\ c.made[Len(c.made)] = "send:fail")
    => /\ chat_messages' = chat_messages
       /\ chat_sessions' = chat_sessions

\* C4: a call whose provider call failed has called the provider once, has
\* issued no insert and no session upsert, and the step in which the provider
\* call fails leaves both collections as they were.
C4_ProviderFailureLeavesStore ==
    [](C4_ProviderFailureNoRetry) /\ [][C4_ProviderFailureStep]_vars

C4_Witness ==
    /\ \E c \in AllCalls : c.made = <<"send:fail">> /\ Failed(c)
    /\ chat_messages # {}
    /\ chat_sessions # {}

\* C5: with the API credential missing (absent or empty), every POST /chat
\* call fails with status 500 at once: the provider is not called, nothing
\* is inserted and no session is upserted.
C5_MissingKeyNoExternalCall ==
    (api_key = None \/ api_key = Some("")) =>
        /\ \A c \in AllCalls :
              /\ c.pc = "done"
              /\ c.made = <<>>
              /\ c.response[1].status = 500
        /\ chat_messages = {}
        /\ \A d \in chat_sessions : d \in CreatedSessions /\ d.total_messages = 0

C5_Witness ==
    /\ api_key = Some("")
    /\ BagCardinality(calls) = 2
    /\ \A c \in AllCalls : Failed(c)

\* number of POST /chat calls on the session that have returned an exchange
ok_calls(session_id) ==
    BagCardinality([c \in {d \in AllCalls : Returned(d) /\ d.session_id = session_id}
                        |-> CopiesIn(c, calls)])

\* number of POST /chat calls on the session whose insert the store has
\* applied, whether the handler resumed from it, still awaits it or saw it
\* raise
inserted_calls(session_id) ==
    BagCardinality([c \in {d \in AllCalls :
                              /\ d.session_id = session_id
                              /\ \/ \E i \in DOMAIN d.made : d.made[i] = "insert:ok"
                                 \/ Inserted(d)}
                        |-> CopiesIn(c, calls)])

\* number of POST /chat calls on the session whose upsert the store has
\* applied, whether the handler returned after it, still awaits it or saw it
\* raise
upserted_calls(session_id) ==
    BagCardinality([c \in {d \in AllCalls :
                              /\ d.session_id = session_id
                              /\ \/ \E i \in DOMAIN d.made : d.made[i] = "update:ok"
                                 \/ \E u \in upsert_of(d) : u.phase = "applied"}
                        |-> CopiesIn(c, calls)])

\* C6 as stated: with an atomic insert-or-update, once k >= 1 calls on a
\* session have returned their exchange, the session has exactly one record,
\* and the total_messages of every session record is k (the record starts
\* at 0 when POST /sessions made it and is made by the first upsert
\* otherwise).
C6_NoLostIncrement ==
    /\ \A d \in chat_sessions : d.total_messages = ok_calls(d.id)
    /\ \A c \in AllCalls :
          Returned(c) =>
              Cardinality(MatchingSessions(chat_sessions, c.session_id)) = 1

\* a call on the session whose upsert the store has applied and which has
\* not completed successfully: it still awaits update_one, or update_one
\* raised after the store applied it
UpsertUnreturned(session_id) ==
    \E c \in AllCalls :
        /\ c.session_id = session_id
        /\ ~Returned(c)
        /\ \E u \in upsert_of(c) : u.phase = "applied"

\* C6 (amended): with an atomic insert-or-update no increment is lost under
\* any interleaving: the total_messages of a session record is its initial
\* value 0 plus the number of calls on the session whose upsert the store
\* has applied; so once k >= 1 calls have returned their exchange the
\* session has exactly one record and its total_messages is at least k, and
\* it is k when every call on the session whose upsert the store has applied
\* has returned its exchange (none still awaits update_one, and for none did
\* update_one raise after the store applied it).
C6_CountIsAppliedUpserts ==
    /\ \A d \in chat_sessions :
          /\ d.total_messages = upserted_calls(d.id)
          /\ d.total_messages >= ok_calls(d.id)
          /\ ~UpsertUnreturned(d.id) => d.total_messages = ok_calls(d.id)
    /\ \A c \in AllCalls :
          (Returned(c) \/ upsert_of(c) # {}) =>
              Cardinality(MatchingSessions(chat_sessions, c.session_id)) = 1

C6_Witness ==
    /\ \E d \in chat_sessions :
          /\ d.id \in ClientSessionIds
          /\ d.total_messages = 2
          /\ ok_calls(d.id) = 1
          /\ \E c \in AllCalls :
                /\ c.session_id = d.id
                /\ Failed(c)
                /\ \E u \in upsert_of(c) : u.phase = "applied"
    /\ \E d \in CreatedSessions : d.total_messages = 0

IsMessagesResponse(o) ==
    o # None /\ o[1].status = 200 /\ "messages" \in DOMAIN o[1]

\* C7 as stated: GET /sessions/{id}/messages returns exactly the stored
\* exchanges of the session in ascending timestamp order, the list is empty
\* right after POST /sessions, and it has length n after n successful chat
\* calls on the session.
C7_LengthIsSuccessfulCalls ==
    IsMessagesResponse(out) =>
        LET body == out[1].messages
            stored == {m \in chat_messages : m.session_id = out[1].session_id}
        IN  /\ {body[i] : i \in DOMAIN body} = stored
            /\ \A i, j \in DOMAIN body :
                  i < j => body[i].timestamp <= body[j].timestamp
            /\ Len(body) = ok_calls(out[1].session_id)

\* the list answered by the store and not yet returned, or the list returned
\* by the latest step
IsPendingAnswer(o) == o # None /\ "messages" \in DOMAIN o[1]

C7_ListIsOfSession(o) ==
    IsPendingAnswer(o) =>
        LET body == o[1].messages
            sid == o[1].session_id
            stored == {m \in chat_messages : m.session_id = sid}
        IN  /\ \A i \in DOMAIN body : body[i] \in stored
            /\ \A i, j \in DOMAIN body : i # j => body[i] # body[j]
            /\ \A i, j \in DOMAIN body :
                  i < j => body[i].timestamp <= body[j].timestamp
            /\ Len(body) <= ListLimit
            /\ Len(body) <= inserted_calls(sid)
            /\ inserted_calls(sid) = 0 => body = <<>>

C7_ReturnedAreStored ==
    /\ C7_ListIsOfSession(messages_call)
    /\ IsMessagesResponse(out) => C7_ListIsOfSession(out)

\* the step in which the store answers the query
C7_AnswerStep ==
    (messages_call = None /\ messages_call' # None) =>
        LET body == messages_call'[1].messages
            sid == messages_call'[1].session_id
            stored == {m \in chat_messages : m.session_id = sid}
        IN  /\ Cardinality(stored) <= ListLimit =>
                  /\ {body[k] : k \in DOMAIN body} = stored
                  /\ Len(body) = Cardinality(stored)
            /\ Cardinality(stored) = inserted_calls(sid)
            /\ inserted_calls(sid) >= ok_calls(sid)

\* the step in which the handler returns the answer of the store
C7_ReturnStep ==
    (messages_call # None /\ IsMessagesResponse(out')) =>
        /\ out'[1].session_id = messages_call[1].session_id
        /\ out'[1].messages = messages_call[1].messages

\* C7 (amended): for a session with at most 1000 stored exchanges,
\* GET /sessions/{id}/messages returns stored exchanges of the session only,
\* each once, in ascending timestamp order: exactly those the store held
\* when it answered the query, whatever is stored before the answer is
\* returned; the list is empty for a session no insert of a chat call has
\* been applied for (so right after POST /sessions), and its length is the
\* number of chat calls on the session whose insert the store had applied
\* when it answered, whether those calls succeeded, failed afterwards or
\* were still under way, which is at least the number n of calls that had
\* succeeded by then.
C7_GetReturnsStoredOfSession ==
    /\ [](C7_ReturnedAreStored)
    /\ [][C7_AnswerStep /\ C7_ReturnStep]_vars

C7_Witness ==
    /\ IsMessagesResponse(out)
    /\ Len(out[1].messages) = 2
    /\ out[1].messages[1].timestamp < out[1].messages[2].timestamp
    /\ ok_calls(out[1].session_id) = 1
    /\ \E c \in AllCalls :
          /\ c.session_id = out[1].session_id
          /\ c.made = <<"send:ok", "insert:fail">>
          /\ c.chat_message[1] \in {out[1].messages[i] : i \in 1..2}

\* C8: when the request supplies a subject, the subject of the call is that
\* value whatever the message; detect_subject decides only when none is
\* supplied.
C8_ExplicitSubjectWins ==
    \A c \in AllCalls :
        /\ c.subject_in # None => c.subject = c.subject_in[1]
        /\ c.subject_in = None => c.subject = detect_subject(c.message)

\* the exchanges built, stored or returned so far
Exchanges ==
    chat_messages
    \cup {c.chat_message[1] : c \in {d \in AllCalls : d.chat_message # None}}
    \cup {c.response[1].body : c \in {d \in AllCalls : Returned(d)}}

FirstFive(list) == SubSeq(list, 1, IF Len(list) < 5 THEN Len(list) ELSE 5)

\* C9: every exchange is consistent with its subject: ai_model_used is
\* "provider/model" of the subject's entry of the model table, of the default
\* entry when the subject has none, and sources are the subject's sources; a
\* message detected as mathematics gets gpt-4o and 5 sources, photography
\* claude-sonnet-4, film_directing gemini-2.0-flash, each with sources.
C9_ExchangeConsistentWithSubject ==
    /\ \A e \in Exchanges :
          /\ e.subject \in DOMAIN AI_MODELS =>
                e.ai_model_used = AI_MODELS[e.subject].provider \o "/"
                                      \o AI_MODELS[e.subject].model
          /\ e.subject \notin DOMAIN AI_MODELS =>
                e.ai_model_used = AI_MODELS["default"].provider \o "/"
                                      \o AI_MODELS["default"].model
          /\ e.subject \in DOMAIN UNIVERSITY_RESOURCES =>
                e.sources = FirstFive(UNIVERSITY_RESOURCES[e.subject])
          /\ e.subject \notin DOMAIN UNIVERSITY_RESOURCES => e.sources = <<>>
          /\ e.subject = "mathematics" =>
                e.ai_model_used = "openai/gpt-4o" /\ Len(e.sources) = 5
          /\ e.subject = "photography" =>
                /\ e.ai_model_used = "anthropic/claude-sonnet-4-20250514"
                /\ e.sources # <<>>
          /\ e.subject = "film_directing" =>
                e.ai_model_used = "gemini/gemini-2.0-flash" /\ e.sources # <<>>
    /\ \A c \in AllCalls :
          (Returned(c) /\ c.subject_in = None) =>
              /\ c.response[1].body.subject = detect_subject(c.message)
              /\ c.message = "Explain derivatives" =>
                    c.response[1].body.subject = "mathematics"

C9_Witness ==
    \E c \in AllCalls :
        /\ Returned(c)
        /\ c.subject_in = None
        /\ c.message = "Explain derivatives"
        /\ c.response[1].body.subject = "mathematics"
        /\ c.response[1].body.ai_model_used = "openai/gpt-4o"
        /\ Len(c.response[1].body.sources) = 5

MathematicsTopFive ==
    <<"MIT", "Harvard University", "Stanford University",
      "Princeton University", "Cambridge University">>

\* C10: the sources of a subject are the first min(5, n) entries of its
\* declared list in declared order (for mathematics MIT, Harvard, Stanford,
\* Princeton, Cambridge), never more than 5, and none for a subject without a
\* source list.
C10_SourcesTopFive ==
    \A c \in AllCalls :
        LET declared == IF c.subject \in DOMAIN UNIVERSITY_RESOURCES
                        THEN UNIVERSITY_RESOURCES[c.subject] ELSE <<>>
        IN  /\ Len(c.sources) <= 5
            /\ Len(c.sources) = (IF Len(declared) < 5 THEN Len(declared) ELSE 5)
            /\ \A i \in DOMAIN c.sources : c.sources[i] = declared[i]
            /\ c.subject = "mathematics" =>
                  [i \in DOMAIN c.sources |-> c.sources[i].name] = MathematicsTopFive
            /\ c.subject \notin DOMAIN UNIVERSITY_RESOURCES => c.sources = <<>>

C10_Witness ==
    \E c \in AllCalls :
        /\ c.subject = "mathematics"
        /\ [i \in DOMAIN c.sources |-> c.sources[i].name] = MathematicsTopFive

IsResourcesResponse ==
    out # None /\ "subject" \in DOMAIN out[1]

\* the subjects detect_subject can assign to an exchange
SubjectTags ==
    {subject_of_scores(p, f, m) : p \in 0..1, f \in 0..1, m \in 0..1}

\* C11: for every subject that has a source list, GET /resources/{subject}
\* returns 5 or fewer entries, and every returned entry carries a subject
\* field equal to that subject's tag.
C11_ResourcesTopFiveTagged ==
    (IsResourcesResponse /\ out[1].subject \in DOMAIN UNIVERSITY_RESOURCES)
        => /\ out[1].status = 200
           /\ Len(out[1].resources) <= 5
           /\ \A i \in DOMAIN out[1].resources :
                 out[1].resources[i].subject = out[1].subject

\* C12: GET /resources/{subject} answers 404 exactly when the subject is not
\* one of the subjects the system can assign to an exchange; for every such
\* subject it returns a list, and it answers in no other way.
C12_NotFoundIffUnknown ==
    IsResourcesResponse
        => /\ out[1].status \in {200, 404}
           /\ (out[1].status = 404) <=> (out[1].subject \notin SubjectTags)
           /\ (out[1].subject \in SubjectTags)
                 => "resources" \in DOMAIN out[1]

returned_calls == {c \in AllCalls : Returned(c)}

C13_OneExchangePerSuccess ==
    /\ \A c \in returned_calls :
          /\ CopiesIn(c, calls) = 1
          /\ Cardinality({m \in chat_messages :
                             m.id = c.response[1].body.id}) = 1
          /\ c.response[1].body \in chat_messages
    /\ \A c, d \in returned_calls :
          c # d => c.response[1].body.id # d.response[1].body.id

C13_StoreStep ==
    /\ \A m \in chat_messages : m \in chat_messages'
    /\ Cardinality(chat_messages') <= Cardinality(chat_messages) + 1
    /\ \A d \in chat_sessions :
          \E e \in chat_sessions' :
              /\ e["_id"] = d["_id"]
              /\ e.id = d.id
              /\ e.total_messages >= d.total_messages

\* C13: no operation removes or rewrites a stored record: a stored exchange
\* stays in the store with unchanged fields at every step, a step stores at
\* most one exchange and every call that returned an exchange has stored
\* exactly one, its own; a session record once present stays and its
\* total_messages never decreases.
C13_StoredRecordsKept ==
    [](C13_OneExchangePerSuccess) /\ [][C13_StoreStep]_vars

C13_Witness ==
    /\ Cardinality(chat_messages) = 2
    /\ Cardinality(returned_calls) = 2
    /\ \E d \in chat_sessions : d.total_messages = 2
    /\ IsMessagesResponse(out)

stored_of(session_id) ==
    Cardinality(find_by_session(chat_messages, session_id))

NoCallInFlight == \A c \in AllCalls : c.pc = "done"

NoUpsertFailed ==
    \A c \in AllCalls :
        \A i \in DOMAIN c.made : c.made[i] # "update:fail"

\* C15: in every reachable state a session record's total_messages is at
\* most the number of stored exchanges with its session id, and the two are
\* equal whenever no chat call is in flight and no session upsert has failed.
C15_CountAtMostStored ==
    \A d \in chat_sessions :
        /\ d.total_messages <= stored_of(d.id)
        /\ (NoCallInFlight /\ NoUpsertFailed)
              => d.total_messages = stored_of(d.id)

NoStorageCallFailed ==
    \A c \in AllCalls :
        \A i \in DOMAIN c.made :
            c.made[i] # "insert:fail" /\ c.made[i] # "update:fail"

\* the same relation in the runs in which no storage call of a chat call has
\* raised: it holds over a store whose insert-or-update is atomic, and not
\* over the store of update_one(..., upsert=True) without a unique index
CountIsStoredWithoutFailure ==
    \A d \in chat_sessions :
        /\ d.total_messages <= stored_of(d.id)
        /\ (NoCallInFlight /\ NoStorageCallFailed)
              => d.total_messages = stored_of(d.id)

\* the position in `scores` of the score of a detected subject
score_index ==
    ("photography" :> 1) @@ ("film_directing" :> 2) @@ ("mathematics" :> 3)

\* C16: the subject returned by detect_subject never has a lower score than
\* another subject: a returned photography, film_directing or mathematics has
\* a score greater than zero and at least the two other scores, and default
\* is returned exactly when the three scores are zero.
C16_DetectedHasMaxScore ==
    detected # ""
        => /\ detected \in DOMAIN score_index \cup {"default"}
           /\ detected \in DOMAIN score_index
                 => /\ scores[score_index[detected]] > 0
                    /\ \A i \in 1..3 :
                          scores[score_index[detected]] >= scores[i]
           /\ (detected = "default") <=> (scores = <<0, 0, 0>>)

C16_Witness ==
    /\ detected = "mathematics"
    /\ scores[1] = scores[3]
    /\ scores[2] > 0
    /\ scores[2] < scores[3]

\* the bullet line of one source
BulletLine(source) ==
    "- " \o source.name \o " (" \o source.department \o "): "
        \o source.url \o "\n"

RECURSIVE BulletLinesFrom(_, _)
\* the bullet lines of sources[i], sources[i+1], ... in that order
BulletLinesFrom(sources, i) ==
    IF i > Len(sources) THEN ""
    ELSE BulletLine(sources[i]) \o BulletLinesFrom(sources, i + 1)

GenericParagraph ==
    "You provide comprehensive educational support across multiple subjects."

\* the paragraph of the four-way switch, told by its first topic line
SwitchParagraph(subject) ==
    IF subject \in {"photography", "film_directing", "mathematics"}
    THEN subject_message(subject)
    ELSE GenericParagraph

ParagraphTopics ==
    ("photography" :> "- Photography techniques and composition\n")
    @@ ("film_directing" :> "- Film directing techniques and theory\n")
    @@ ("mathematics" :> "- Mathematical concepts and problem-solving\n")

FourParagraphs ==
    \A subject \in DOMAIN ParagraphTopics :
        /\ StrIn(ParagraphTopics[subject], SwitchParagraph(subject))
        /\ \A other \in DOMAIN ParagraphTopics \ {subject} :
              ~StrIn(ParagraphTopics[other], SwitchParagraph(subject))

SourcesHeader ==
    "\n\nRefer to these trusted university sources when relevant:\n"

\* C14 as stated: the output of create_educational_system_message(subject,
\* sources) is the fixed preamble, the subject paragraph of the four-way
\* switch, one bullet line "- {name} ({department}): {url}" per source in
\* the input order, and the closing citation reminder, in this order and
\* nothing else.
C14_PromptSections ==
    prompt # None
        => prompt[1].system_message =
               base_message \o SwitchParagraph(prompt[1].subject)
                   \o BulletLinesFrom(prompt_sources, 1)
                   \o citation_reminder

\* C14 amended: the output is the fixed preamble, the subject paragraph of
\* the four-way switch, the fixed header of the sources section (present
\* also when sources is empty), one bullet line per source in the input
\* order, and the closing citation reminder, in this order.
C14_PromptSectionsWithHeader ==
    prompt # None
        => /\ prompt[1].system_message =
                  base_message \o SwitchParagraph(prompt[1].subject)
                      \o SourcesHeader
                      \o BulletLinesFrom(prompt_sources, 1)
                      \o citation_reminder
           /\ FourParagraphs

C14_Witness ==
    /\ prompt # None
    /\ prompt[1].subject = "film_directing"
    /\ Len(prompt_sources) = 2
    /\ prompt_sources[1] # prompt_sources[2]

====
